---- MODULE Spec2Model ----
(***************************************************************************)
(* Model of the ingestion path of rag-iep-system/services/embedder/main.py *)
(* (BatchProcessor.run / process_batch / save_vector_batch / stop and the  *)
(* /messages handler handle_message).                                      *)
(*                                                                         *)
(* Scheduling follows asyncio: one event-loop thread.  BatchProcessor.run  *)
(* is suspended only inside asyncio.wait_for(self.queue.get(), ...)        *)
(* (pc = "wait", and pc = "got" once the task wait_for made of queue.get() *)
(* has taken a message and run() is yet to be resumed, as wait_for does on *)
(* Python 3.11); process_batch contains no real suspension point           *)
(* (get_embeddings and upload_from_string are blocking calls and           *)
(* save_vector_batch awaits nothing), so request handlers and the lifespan *)
(* shutdown hook run only while run() is suspended in wait_for or after    *)
(* it has returned.  Time is a discrete clock `now` read by time.time();   *)
(* datetime.utcnow() reads the same clock at microsecond resolution.       *)
(*                                                                         *)
(* The file imports neither Request nor base64.  Loading it raises         *)
(* NameError at the annotation of handle_message (main.py:153), so the     *)
(* module is followed from the point where its definitions exist; the body *)
(* of handle_message then raises NameError at base64.b64decode (160) on    *)
(* every delivery, answers HTTP 500 and puts nothing.  Messages enter the  *)
(* BatchProcessor through its queue (main.py:55): QueuePut is a caller of  *)
(* batch_processor.queue.put, the interface run() consumes.                *)
(*                                                                         *)
(* The second part models the query path of                                *)
(* rag-iep-system/services/rag-api/main.py (query_rag with its generate()  *)
(* stream, get_prompt_template, reload_prompts) under its own              *)
(* specification QuerySpec.                                                *)
(*                                                                         *)
(* The third part models rag-iep-system/services/doc-parser/main.py        *)
(* (the /process handler and DocumentParser.process_document) under the    *)
(* specification ParseSpec.  That file does not import base64 either: the  *)
(* handler raises NameError at main.py:181 and answers HTTP 500 before it  *)
(* calls process_document; ProcessDocument is a call of                    *)
(* parser.process_document itself.                                         *)
(***************************************************************************)
EXTENDS Integers, Sequences, FiniteSets, TLC

(* ---- bounds of the model ------------------------------------------------ *)
\* BATCH_SIZE = 100 (main.py:23), scaled down.
BATCH_SIZE == 2
\* BATCH_TIMEOUT = 10 seconds (main.py:24), scaled down to clock ticks.
BATCH_TIMEOUT == 2
\* asyncio.Queue(maxsize=1000) (main.py:55), scaled down.
QUEUE_MAXSIZE == 2
\* the 0.1 s floor of max(0.1, timeout) (main.py:76), in clock ticks.
MIN_WAIT == 1
\* number of messages in one process lifetime: puts into the queue and
\* deliveries posted to /messages.
MaxDeliveries == 3
\* last value of the clock.
MaxTime == 3
\* the 300 s after which get_prompt_template reloads (rag-api/main.py:136),
\* scaled down to clock ticks.
TEMPLATE_TTL == 1
\* largest number of neighbors find_neighbors returns (request.max_results).
MaxNeighbors == 3
\* largest number of chunks the generation oracle streams for one query.
MaxFragments == 3
\* number of times the stored prompt template is replaced by a new version.
MaxVersion == 1
\* largest number of words of a document's text.
MaxWords == 4
\* number of /process requests and process_document calls.
MaxRuns == 2

(* ---- messages ----------------------------------------------------------- *)
\* keys process_batch reads from a decoded message (main.py:95, 104-110)
Fields == {"text", "chunkId", "docId", "sourceUri", "language", "chunkIndex"}

\* the sets of keys a message put into the queue may lack
MissingChoices == {{}, {"text"}, {"docId"}}

\* the n-th message, lacking the keys `missing`: a dict
Data(n, missing) == [f \in Fields \ missing |-> <<f, n>>]

\* the number of a message
Delivery(msg) == msg["chunkId"][2]

\* the value the embedding oracle returns as its i-th vector
Vector(i) == <<"v", i>>

\* the response of get_embeddings that holds k vectors
OracleResponse(k) == [i \in 1..k |-> Vector(i)]

\* the numbers of vectors get_embeddings may return for n texts: n, or a
\* number that differs from n (nothing in the code constrains it)
ReturnedCounts(n) == {0, n - 1, n, n + 1}

Max(a, b) == IF a >= b THEN a ELSE b
Min(a, b) == IF a <= b THEN a ELSE b

VARIABLES
    running,      \* BatchProcessor.running
    queue,        \* BatchProcessor.queue: sequence of decoded messages
    putters,      \* messages of producers suspended in queue.put (queue full)
    pc,           \* position of BatchProcessor.run
    batch,        \* run's local `batch` / process_batch's `messages`
    message,      \* run's local `message`: what wait_for's queue.get() returned
    start_time,   \* run's local `start_time`
    deadline,     \* the time the pending wait_for times out
    embeddings,   \* process_batch's local `embeddings`
    vector_data,  \* process_batch's local `vector_data`
    filename,     \* save_vector_batch's local `filename`: [tick, micro]
    now,          \* time.time()
    delivered,    \* number of messages so far: puts by producers and posts to /messages
    response,     \* post -> "queued" | "error" (HTTP answer of handle_message)
    enq,          \* message -> [at, running, seq] at the moment its queue.put completed
    handed,       \* batches handed to process_batch: sequence of [items, at]
    oracleCalls,  \* calls of embedding_model.get_embeddings: [batch, texts, result]
    uploads,      \* successful blob uploads: sequence of [batch, name, records]
    bucket,       \* staging bucket: blob name -> records
    failures,     \* batches whose process_batch took the except branch: [batch, error]
    stopped       \* [at, batch]: the time of stop() (-1 before) and run's batch then

\* state of the query path (rag-api/main.py)
VARIABLES
    tstore,       \* version of the template in the prompt template store
    cache,        \* app.state.prompt_template / app.state.template_loaded_at, and
                  \* which of lifespan, get_prompt_template, reload_prompts set them
    query         \* position, locals and outputs of the /query request followed

ingestVars == <<running, queue, putters, pc, batch, message, start_time, deadline, embeddings,
                vector_data, filename, delivered, response, enq, handed, oracleCalls, uploads,
                bucket, failures, stopped>>

queryVars == <<tstore, cache, query>>

\* state of the document parser (doc-parser/main.py)
VARIABLES
    runs,         \* the /process requests and process_document calls so far, each
                  \* with its document, position, locals and published events
    processed     \* the processed bucket: blobs [name, records] in creation order

parserVars == <<runs, processed>>

vars == <<ingestVars, now, queryVars, parserVars>>

ParserInit ==
    /\ runs = <<>>
    /\ processed = <<>>

\* query_rag's locals and outputs before the request arrives
NoQuery ==
    [pc |-> "idle", neighbors |-> <<>>, exists |-> <<>>, chunks |-> <<>>,
     context |-> <<>>, tmpl |-> [version |-> -1],
     prompt |-> [template |-> -1, context |-> <<>>, question |-> ""],
     response |-> "none",
     answer |-> [answer |-> "", sources |-> <<>>, prompt_version |-> -1],
     stream |-> <<>>, calls |-> <<>>, pulled |-> <<>>, served |-> -1, logged |-> FALSE,
     got |-> [late |-> FALSE, early |-> FALSE, read |-> FALSE, origin |-> ""]]

\* lifespan (rag-api/main.py:59-62): the template is loaded at startup from a
\* store that holds no template document yet
QueryInit ==
    /\ tstore = 0
    /\ cache = [template |-> [version |-> 0], loaded_at |-> 0, origin |-> "startup"]
    /\ query = NoQuery

procVars == <<batch, message, start_time, deadline, embeddings, vector_data, filename>>
hist == <<handed, oracleCalls, uploads, bucket, failures>>

Init ==
    /\ running = TRUE
    /\ queue = <<>>
    /\ putters = {}
    /\ pc = "loop"
    /\ batch = <<>>
    /\ message = <<>>
    /\ start_time = 0
    /\ deadline = 0
    /\ embeddings = <<>>
    /\ vector_data = <<>>
    /\ filename = [tick |-> -1, micro |-> 0]
    /\ now = 0
    /\ delivered = 0
    /\ response = <<>>
    /\ enq = <<>>
    /\ handed = <<>>
    /\ oracleCalls = <<>>
    /\ uploads = <<>>
    /\ bucket = <<>>
    /\ failures = <<>>
    /\ stopped = [at |-> -1, batch |-> <<>>]
    /\ QueryInit
    /\ ParserInit

\* the event loop can run a coroutine other than run(): run() is suspended in
\* wait_for (its queue.get() pending, or returned with run() not yet resumed)
\* or has returned
LoopFree == pc \in {"wait", "got", "done"}

(* ---- BatchProcessor.queue (main.py:55) ---------------------------------- *)
\* a put into a queue created without maxsize: it never waits for room
Put_Unbounded(msg) ==
    /\ queue' = Append(queue, msg)
    /\ enq' = (Delivery(msg) :> [at |-> now, running |-> running,
                                 seq |-> Cardinality(DOMAIN enq) + 1]) @@ enq

\* queue.put(data) completes (asyncio.Queue.put: append when not full)
Put(msg) ==
    /\ Len(queue) < QUEUE_MAXSIZE
    /\ queue' = Append(queue, msg)
    /\ enq' = (Delivery(msg) :> [at |-> now, running |-> running,
                                 seq |-> Cardinality(DOMAIN enq) + 1]) @@ enq

\* a producer awaits batch_processor.queue.put(data) with a decoded message:
\* the put completes at once when the queue has room, otherwise the producer
\* suspends in queue.put
QueuePut(missing) ==
    /\ LoopFree
    /\ delivered < MaxDeliveries
    /\ delivered' = delivered + 1
    /\ LET msg == Data(delivered + 1, missing) IN
         IF Len(queue) < QUEUE_MAXSIZE
         THEN Put(msg) /\ UNCHANGED putters
         ELSE putters' = putters \cup {msg} /\ UNCHANGED <<queue, enq>>
    /\ UNCHANGED <<parserVars, queryVars, running, pc, procVars, now, response, hist, stopped>>

\* a producer suspended in queue.put resumes once the queue has room
QueuePutResume(msg) ==
    /\ LoopFree
    /\ msg \in putters
    /\ Put(msg)
    /\ putters' = putters \ {msg}
    /\ UNCHANGED <<parserVars, queryVars, running, pc, procVars, now, delivered, response, hist,
                   stopped>>

(* ---- handle_message (main.py:152-169) ----------------------------------- *)
\* a handler that answers "queued" for a delivery it has not put into the queue
HandleMessage_AckFirst ==
    /\ LoopFree
    /\ delivered < MaxDeliveries
    /\ delivered' = delivered + 1
    /\ response' = ((delivered + 1) :> "queued") @@ response
    /\ UNCHANGED <<parserVars, queryVars, running, queue, putters, pc, procVars, now, enq, hist, stopped>>

\* a delivery posted to /messages: base64.b64decode (main.py:160) raises
\* NameError, the name base64 being bound nowhere in the module; the except
\* branch (167-169) answers HTTP 500 and queue.put (163) is not reached
HandleMessage ==
    /\ LoopFree
    /\ delivered < MaxDeliveries
    /\ delivered' = delivered + 1
    /\ response' = ((delivered + 1) :> "error") @@ response
    /\ UNCHANGED <<parserVars, queryVars, running, queue, putters, pc, procVars, now, enq, hist, stopped>>

(* ---- BatchProcessor.stop (main.py:148-149) ------------------------------ *)
Stop ==
    /\ LoopFree
    /\ running
    /\ running' = FALSE
    /\ stopped' = [at |-> now, batch |-> batch]
    /\ UNCHANGED <<parserVars, queryVars, queue, putters, pc, procVars, now, delivered, response, enq, hist>>

(* ---- BatchProcessor.run (main.py:62-87) --------------------------------- *)
\* `while self.running:` then `batch = []; start_time = time.time()`
RunLoop ==
    /\ pc = "loop"
    /\ IF running
       THEN /\ batch' = <<>>
            /\ start_time' = now
            /\ pc' = "cond"
       ELSE /\ pc' = "done"
            /\ UNCHANGED <<batch, start_time>>
    /\ UNCHANGED <<parserVars, queryVars, message, running, queue, putters, deadline, embeddings, vector_data, filename, now,
                   delivered, response, enq, hist, stopped>>

\* the inner while without its size test
CollectMore_NoSizeTest == (now - start_time) < BATCH_TIMEOUT

\* condition of the inner while (main.py:70)
CollectMore == Len(batch) < BATCH_SIZE /\ (now - start_time) < BATCH_TIMEOUT

\* timeout handed to wait_for (main.py:73, 76)
WaitTimeout == Max(MIN_WAIT, BATCH_TIMEOUT - (now - start_time))

\* inner while test; on true, wait_for(self.queue.get(), timeout) is started
RunCond ==
    /\ pc = "cond"
    /\ IF CollectMore
       THEN /\ deadline' = now + WaitTimeout
            /\ pc' = "wait"
       ELSE /\ pc' = "flush"
            /\ UNCHANGED deadline
    /\ UNCHANGED <<parserVars, queryVars, message, running, queue, putters, batch, start_time, embeddings, vector_data, filename,
                   now, delivered, response, enq, hist, stopped>>

\* a get that reads the head of the queue without removing it
RunGet_NoDequeue ==
    /\ pc = "wait"
    /\ queue # <<>>
    /\ message' = Head(queue)
    /\ pc' = "got"
    /\ UNCHANGED <<parserVars, queryVars, running, queue, putters, batch, start_time, deadline,
                   embeddings, vector_data, filename, now, delivered, response, enq, hist, stopped>>

\* a get that takes the message put last
RunGet_Lifo ==
    /\ pc = "wait"
    /\ queue # <<>>
    /\ message' = queue[Len(queue)]
    /\ queue' = SubSeq(queue, 1, Len(queue) - 1)
    /\ pc' = "got"
    /\ UNCHANGED <<parserVars, queryVars, running, putters, batch, start_time, deadline, embeddings,
                   vector_data, filename, now, delivered, response, enq, hist, stopped>>

\* the task wait_for made of queue.get() takes the head of the queue and
\* ends; run() is resumed by a later turn of the event loop
RunGet ==
    /\ pc = "wait"
    /\ queue # <<>>
    /\ message' = Head(queue)
    /\ queue' = Tail(queue)
    /\ pc' = "got"
    /\ UNCHANGED <<parserVars, queryVars, running, putters, batch, start_time, deadline, embeddings,
                   vector_data, filename, now, delivered, response, enq, hist, stopped>>

\* the producer that the get woke from queue.put runs before run() does: no
\* put waits for room the queue has
PuttersServed == putters = {} \/ Len(queue) >= QUEUE_MAXSIZE

\* wait_for returns the message to run(): batch.append(message) (main.py:78)
RunResume ==
    /\ pc = "got"
    /\ PuttersServed
    /\ batch' = Append(batch, message)
    /\ message' = <<>>
    /\ pc' = "cond"
    /\ UNCHANGED <<parserVars, queryVars, running, queue, putters, start_time, deadline, embeddings,
                   vector_data, filename, now, delivered, response, enq, hist, stopped>>

\* wait_for raises asyncio.TimeoutError: break.  A message put at the instant
\* the timeout expires stays in the queue when the timer is served first
RunTimeout ==
    /\ pc = "wait"
    /\ now >= deadline
    /\ pc' = "flush"
    /\ UNCHANGED <<parserVars, queryVars, running, queue, putters, procVars, now, delivered, response, enq,
                   hist, stopped>>

\* `if batch:` (main.py:82)
HasBatch == batch # <<>>

\* `if batch: await self.process_batch(batch)`
RunFlush ==
    /\ pc = "flush"
    /\ IF HasBatch
       THEN /\ handed' = Append(handed, [items |-> batch, at |-> now])
            /\ pc' = "process"
       ELSE /\ pc' = "loop"
            /\ UNCHANGED handed
    /\ UNCHANGED <<parserVars, queryVars, running, queue, putters, procVars, now, delivered, response, enq,
                   oracleCalls, uploads, bucket, failures, stopped>>

(* ---- BatchProcessor.process_batch (main.py:89-128) ---------------------- *)
\* a failure that escapes process_batch and run(): the task ends
AfterBatchFailure_Escapes == "done"

\* where run() continues after process_batch's except branch has logged the
\* error: process_batch returns normally, run() goes back to `while self.running`
AfterBatchFailure == "loop"

\* process_batch is left: its locals are gone
ProcessBatchReturn ==
    /\ embeddings' = <<>>
    /\ vector_data' = <<>>
    /\ filename' = [tick |-> -1, micro |-> 0]

\* the except branch of process_batch (main.py:124-128)
BatchFailed(error) ==
    /\ failures' = Append(failures, [batch |-> Len(handed), error |-> error])
    /\ pc' = AfterBatchFailure
    /\ ProcessBatchReturn

\* texts = [msg["text"] for msg in messages] (main.py:95)
Texts(messages) == [i \in 1..Len(messages) |-> messages[i]["text"]]

\* the keys read when one record is built (main.py:103-112)
RecordFields == {"chunkId", "docId", "sourceUri", "language", "chunkIndex"}

\* one element of vector_data (main.py:103-112)
Record(msg, embedding) ==
    [id |-> msg["chunkId"],
     embedding |-> embedding,
     metadata |-> [docId |-> msg["docId"],
                   sourceUri |-> msg["sourceUri"],
                   language |-> msg["language"],
                   chunkIndex |-> msg["chunkIndex"]]]

\* pairing that takes the embeddings from the end of the response
VectorData_Reversed(messages, embs) ==
    [i \in 1..Min(Len(messages), Len(embs)) |-> Record(messages[i], embs[Len(embs) + 1 - i])]

\* for msg, embedding in zip(messages, embeddings): vector_data.append(...)
VectorData(messages, embs) ==
    [i \in 1..Min(Len(messages), Len(embs)) |-> Record(messages[i], embs[i])]

\* building vector_data raises KeyError: a zipped message lacks a key
PairingRaises(messages, embs) ==
    \E i \in 1..Min(Len(messages), Len(embs)) : ~(RecordFields \subseteq DOMAIN messages[i])

\* the microsecond fields of the names uploaded within the current tick
UsedMicroseconds ==
    {uploads[u].name.micro : u \in {v \in 1..Len(uploads) : uploads[v].name.tick = now}}

\* the microsecond field datetime.utcnow() may show: one not seen within this
\* tick, or (the clock showing the same microsecond again) one already used
Microseconds ==
    {m \in 0..Len(uploads) : m = 0 \/ m \in UsedMicroseconds \/ (m - 1) \in UsedMicroseconds}

\* timestamp = datetime.utcnow().strftime("%Y%m%d_%H%M%S_%f") and
\* filename = f"batch_{timestamp}.jsonl" (main.py:132-133)
BlobName(micro) == [tick |-> now, micro |-> micro]

\* the outcome recorded for the pending call of get_embeddings
OracleResult(status, embs) ==
    [oracleCalls EXCEPT ![Len(oracleCalls)].result = [status |-> status, embeddings |-> embs]]

\* texts are extracted and embedding_model.get_embeddings(texts) is called
ProcessBatchStart ==
    /\ pc = "process"
    /\ IF \E i \in 1..Len(batch) : "text" \notin DOMAIN batch[i]
       THEN BatchFailed("KeyError") /\ UNCHANGED oracleCalls
       ELSE /\ oracleCalls' = Append(oracleCalls,
                                     [batch |-> Len(handed), texts |-> Texts(batch),
                                      result |-> [status |-> "pending", embeddings |-> <<>>]])
            /\ pc' = "oracle"
            /\ UNCHANGED <<failures, embeddings, vector_data, filename>>
    /\ UNCHANGED <<parserVars, queryVars, message, running, queue, putters, batch, start_time, deadline, now, delivered,
                   response, enq, handed, uploads, bucket, stopped>>

\* get_embeddings returns k vectors; vector_data is built and
\* save_vector_batch is entered: it reads the clock for the blob's name
\* (main.py:132-133) before the upload is started
ProcessBatchEmbedded(k) ==
    /\ pc = "oracle"
    /\ k \in ReturnedCounts(Len(batch))
    /\ oracleCalls' = OracleResult("returned", OracleResponse(k))
    /\ IF PairingRaises(batch, OracleResponse(k))
       THEN BatchFailed("KeyError")
       ELSE /\ embeddings' = OracleResponse(k)
            /\ vector_data' = VectorData(batch, OracleResponse(k))
            /\ \E micro \in Microseconds : filename' = BlobName(micro)
            /\ pc' = "save"
            /\ UNCHANGED failures
    /\ UNCHANGED <<parserVars, queryVars, message, running, queue, putters, batch, start_time, deadline, now, delivered,
                   response, enq, handed, uploads, bucket, stopped>>

\* an oracle failure after which the records built so far (none) are still
\* written as the batch's blob
ProcessBatchOracleError_Stages ==
    /\ pc = "oracle"
    /\ oracleCalls' = OracleResult("raised", <<>>)
    /\ failures' = Append(failures, [batch |-> Len(handed), error |-> "OracleError"])
    /\ uploads' = Append(uploads, [batch |-> Len(handed), name |-> BlobName(0),
                                   records |-> <<>>])
    /\ bucket' = (BlobName(0) :> <<>>) @@ bucket
    /\ pc' = "loop"
    /\ ProcessBatchReturn
    /\ UNCHANGED <<parserVars, queryVars, message, running, queue, putters, batch, start_time, deadline, now, delivered,
                   response, enq, handed, stopped>>

\* get_embeddings raises
ProcessBatchOracleError ==
    /\ pc = "oracle"
    /\ oracleCalls' = OracleResult("raised", <<>>)
    /\ BatchFailed("OracleError")
    /\ UNCHANGED <<parserVars, queryVars, message, running, queue, putters, batch, start_time, deadline, now, delivered,
                   response, enq, handed, uploads, bucket, stopped>>

(* ---- BatchProcessor.save_vector_batch (main.py:130-146) ----------------- *)
\* process_batch's local start_time = time.time() (main.py:91), read when the
\* batch is handed over
BatchStartTime == handed[Len(handed)].at

\* duration = time.time() - start_time (main.py:118)
Duration == now - BatchStartTime

\* blob.upload_from_string returns: the blob called `filename` holds the
\* records, replacing what a blob of that name held before.  process_batch
\* then logs its metrics (main.py:117-122): len(texts) / duration raises
\* ZeroDivisionError when the clock reads what it read at the start, and the
\* except branch logs the batch, whose blob is written, as failed
SaveVectorBatch ==
    /\ pc = "save"
    /\ uploads' = Append(uploads, [batch |-> Len(handed), name |-> filename,
                                   records |-> vector_data])
    /\ bucket' = (filename :> vector_data) @@ bucket
    /\ IF Duration = 0
       THEN BatchFailed("ZeroDivisionError")
       ELSE /\ pc' = "loop"
            /\ ProcessBatchReturn
            /\ UNCHANGED failures
    /\ UNCHANGED <<parserVars, queryVars, message, running, queue, putters, batch, start_time, deadline, now, delivered,
                   response, enq, handed, oracleCalls, stopped>>

\* blob.upload_from_string raises: caught by process_batch's except branch
SaveVectorBatchError ==
    /\ pc = "save"
    /\ BatchFailed("UploadError")
    /\ UNCHANGED <<parserVars, queryVars, message, running, queue, putters, batch, start_time, deadline, now, delivered,
                   response, enq, handed, oracleCalls, uploads, bucket, stopped>>

(* ---- time --------------------------------------------------------------- *)
\* time passes while run() waits in wait_for on an empty queue before the
\* timeout, inside the blocking oracle call or upload, and after run() has
\* returned
Tick ==
    /\ now < MaxTime
    /\ \/ pc = "wait" /\ queue = <<>> /\ now < deadline
       \/ pc \in {"oracle", "save", "done"}
    /\ now' = now + 1
    /\ UNCHANGED <<parserVars, queryVars, running, queue, putters, pc, procVars, delivered, response, enq,
                   hist, stopped>>

Next ==
    \/ \E missing \in MissingChoices : QueuePut(missing)
    \/ \E n \in 1..MaxDeliveries, missing \in MissingChoices :
          QueuePutResume(Data(n, missing))
    \/ HandleMessage
    \/ Stop
    \/ RunLoop
    \/ RunCond
    \/ RunGet
    \/ RunResume
    \/ RunTimeout
    \/ RunFlush
    \/ ProcessBatchStart
    \/ \E k \in 0..(BATCH_SIZE + 1) : ProcessBatchEmbedded(k)
    \/ ProcessBatchOracleError
    \/ SaveVectorBatch
    \/ SaveVectorBatchError
    \/ Tick

Spec == Init /\ [][Next]_vars

(* ======================================================================== *)
(* The query path: rag-api/main.py                                          *)
(*                                                                          *)
(* One /query request is followed from its arrival to the end of its        *)
(* stream.  Requests share nothing but app.state (the cached template), so  *)
(* every other request acts on the followed one only through                *)
(* get_prompt_template and reload_prompts.  query_rag runs from its first   *)
(* line to its return without yielding to the event loop (the oracle and    *)
(* store calls block, load_prompt_template awaits nothing); generate()      *)
(* yields to the loop at each yield statement.                              *)
(* ======================================================================== *)
\* the question of the request followed
Question == "question"

\* the i-th best match of find_neighbors: a chunk id and its distance
Neighbor(i) == [id |-> <<"chunk", i>>, distance |-> i - 1]

\* response[0] of find_neighbors when the index holds k matches
SearchResult(k) == [i \in 1..k |-> Neighbor(i)]

\* doc.to_dict() of the chunk metadata record of a chunk id
ChunkData(id) == [sourceUri |-> <<"uri", id>>, text |-> <<"text", id>>]

\* query_rag: the zero-result test
ZeroResults_Never(neighbors) == FALSE

ZeroResults(neighbors) == Len(neighbors) = 0

\* query_rag: relevance_score of a hydrated chunk
RelevanceScore_Distance(distance) == distance

RelevanceScore(distance) == 1 - distance

\* query_rag: one turn of the hydration loop
AppendChunk(chunks, neighbor, exists) ==
    IF exists
    THEN Append(chunks, [sourceUri |-> ChunkData(neighbor.id).sourceUri,
                         text |-> ChunkData(neighbor.id).text,
                         relevance_score |-> RelevanceScore(neighbor.distance)])
    ELSE chunks

\* query_rag: the context, one "[Source: uri]\ntext" block per chunk
Context(chunks) ==
    [i \in 1..Len(chunks) |-> [source |-> chunks[i].sourceUri, text |-> chunks[i].text]]

\* tmpl["template"].format(context=..., question=...)
Format(tmpl, context, question) ==
    [template |-> tmpl.version, context |-> context, question |-> question]

\* load_prompt_template: the stored document, or the default when there is none
LoadPromptTemplate == [version |-> tstore]

\* get_prompt_template: the refresh test
Stale_Never == FALSE

Stale == (now - cache.loaded_at) > TEMPLATE_TTL

\* get_prompt_template: app.state after the call
CacheAfterGet ==
    IF Stale
    THEN [template |-> LoadPromptTemplate, loaded_at |-> now, origin |-> "refresh"]
    ELSE cache

\* what a call to get_prompt_template did: whether the template returned was
\* loaded more than the refresh interval ago (late), whether the store was read,
\* whether it was read although the cached copy was no older than the interval
\* (early), and the origin of the template returned
Got ==
    [late |-> (now - CacheAfterGet.loaded_at) > TEMPLATE_TTL,
     early |-> Stale /\ (now - cache.loaded_at) <= TEMPLATE_TTL,
     read |-> Stale, origin |-> CacheAfterGet.origin]

\* the outcomes of a call to get_prompt_template followed by format
TemplateOutcomes == {"ok", "load_raises", "format_raises"}

\* the event loop is free for another handler
LoopIdle ==
    query.pc \in {"idle", "start", "yield", "final", "closed", "aborted", "cancelled"}

\* the log of oracle and store calls, extended by one call
Called(stage, ok) == Append(query.calls, [stage |-> stage, ok |-> ok])

\* query_rag's except branch, taken by a mutilated handler that streams anyway
QueryFailed_FallsThrough(stage) ==
    query' = [query EXCEPT !.pc = "start", !.response = "stream",
                           !.calls = Called(stage, FALSE)]

\* query_rag's except branch: HTTPException(500)
QueryFailed(stage) ==
    query' = [query EXCEPT !.pc = "closed", !.response = "error",
                           !.calls = Called(stage, FALSE)]

\* the request arrives
QueryStart ==
    /\ query.pc = "idle"
    /\ query' = [query EXCEPT !.pc = "embed"]
    /\ UNCHANGED <<parserVars, ingestVars, now, tstore, cache>>

\* 1. embed the question
QueryEmbed(ok) ==
    /\ query.pc = "embed"
    /\ IF ok
       THEN query' = [query EXCEPT !.pc = "search", !.calls = Called("embed", TRUE)]
       ELSE QueryFailed("embed")
    /\ UNCHANGED <<parserVars, ingestVars, now, tstore, cache>>

\* 2. vector search, and the zero-result test
QuerySearch(ok, k) ==
    /\ query.pc = "search"
    /\ ok \/ k = 0
    /\ IF ok
       THEN query' = [query EXCEPT
                        !.pc = IF ZeroResults(SearchResult(k)) THEN "noresult" ELSE "hydrate",
                        !.neighbors = SearchResult(k),
                        !.calls = Called("search", TRUE)]
       ELSE QueryFailed("search")
    /\ UNCHANGED <<parserVars, ingestVars, now, tstore, cache>>

\* the zero-result answer
QueryNoResult(outcome) ==
    /\ query.pc = "noresult"
    /\ outcome \in {"ok", "load_raises"}
    /\ outcome = "load_raises" => Stale
    /\ IF outcome = "ok"
       THEN /\ cache' = CacheAfterGet
            /\ query' = [query EXCEPT
                           !.pc = "closed",
                           !.tmpl = cache'.template,
                           !.served = cache'.template.version,
                           !.got = Got,
                           !.response = "answer",
                           !.answer = [answer |-> "no_relevant_information",
                                       sources |-> <<>>,
                                       prompt_version |-> cache'.template.version]]
       ELSE QueryFailed("template") /\ UNCHANGED cache
    /\ UNCHANGED <<parserVars, ingestVars, now, tstore>>

\* the outcomes of one metadata lookup
Lookups == {"exists", "absent", "raises"}

\* 3. one turn of the hydration loop
QueryHydrate(lookup) ==
    /\ query.pc = "hydrate"
    /\ Len(query.exists) < Len(query.neighbors)
    /\ IF lookup = "raises"
       THEN QueryFailed("meta")
       ELSE query' = [query EXCEPT
                        !.exists = Append(@, lookup = "exists"),
                        !.chunks = AppendChunk(@, query.neighbors[Len(query.exists) + 1],
                                               lookup = "exists"),
                        !.calls = Called("meta", TRUE)]
    /\ UNCHANGED <<parserVars, ingestVars, now, tstore, cache>>

\* 4. build the context
QueryContext ==
    /\ query.pc = "hydrate"
    /\ Len(query.exists) = Len(query.neighbors)
    /\ query' = [query EXCEPT !.pc = "assemble", !.context = Context(query.chunks)]
    /\ UNCHANGED <<parserVars, ingestVars, now, tstore, cache>>

\* 5. fetch the template, assemble the prompt, return the StreamingResponse
QueryAssemble(outcome) ==
    /\ query.pc = "assemble"
    /\ outcome = "load_raises" => Stale
    /\ cache' = IF outcome = "load_raises" THEN cache ELSE CacheAfterGet
    /\ IF outcome = "ok"
       THEN query' = [query EXCEPT
                        !.pc = "start",
                        !.tmpl = cache'.template,
                        !.served = cache'.template.version,
                        !.got = Got,
                        !.prompt = Format(cache'.template, query.context, Question),
                        !.calls = Called("template", TRUE),
                        !.response = "stream"]
       ELSE QueryFailed(IF outcome = "load_raises" THEN "template" ELSE "format")
    /\ UNCHANGED <<parserVars, ingestVars, now, tstore>>

\* an event of the stream: json.dumps({'chunk': text})
ChunkEvent(text) ==
    [done |-> FALSE, chunk |-> text, sources |-> <<>>, prompt_version |-> -1]

\* generate: the sources of the final event
Sources(chunks) ==
    [i \in 1..Len(chunks) |-> [uri |-> chunks[i].sourceUri,
                               score |-> chunks[i].relevance_score]]

\* generate: the template version of the final event
FinalVersion_Cached == cache.template.version

FinalVersion == query.tmpl.version

\* generate: final_data
FinalEvent ==
    [done |-> TRUE, chunk |-> 0, sources |-> Sources(query.chunks),
     prompt_version |-> FinalVersion]

\* the text of the i-th chunk of the oracle's stream: 0 stands for empty text
Fragment(i, empty) == IF empty THEN 0 ELSE i

\* generate: what one chunk of the oracle's stream adds to the answer stream
Forward_All(frag) == <<ChunkEvent(frag)>>

Forward(frag) == IF frag # 0 THEN <<ChunkEvent(frag)>> ELSE <<>>

\* generate: generation_model.generate_content(prompt, stream=True)
GenStart(ok) ==
    /\ query.pc = "start"
    /\ query' = [query EXCEPT !.pc = IF ok THEN "stream" ELSE "aborted",
                              !.calls = Called("generate", ok)]
    /\ UNCHANGED <<parserVars, ingestVars, now, tstore, cache>>

\* generate: one turn of "for chunk in response"
GenPull(empty) ==
    /\ query.pc \in {"stream", "yield"}
    /\ Len(query.pulled) < MaxFragments
    /\ LET frag == Fragment(Len(query.pulled) + 1, empty)
       IN query' = [query EXCEPT
                      !.pc = IF Forward(frag) # <<>> THEN "yield" ELSE "stream",
                      !.pulled = Append(@, frag),
                      !.stream = @ \o Forward(frag)]
    /\ UNCHANGED <<parserVars, ingestVars, now, tstore, cache>>

\* generate: the oracle raises while its stream is iterated; the exception
\* leaves generate() after query_rag has returned
GenPullError ==
    /\ query.pc \in {"stream", "yield"}
    /\ query' = [query EXCEPT !.pc = "aborted"]
    /\ UNCHANGED <<parserVars, ingestVars, now, tstore, cache>>

\* generate: the oracle's stream ends; the final event is sent
GenEnd ==
    /\ query.pc \in {"stream", "yield"}
    /\ query' = [query EXCEPT !.pc = "final", !.stream = Append(@, FinalEvent)]
    /\ UNCHANGED <<parserVars, ingestVars, now, tstore, cache>>

\* generate: the cost log after the final event, and the end of the stream
GenLogCost ==
    /\ query.pc = "final"
    /\ query' = [query EXCEPT !.pc = "closed", !.logged = TRUE]
    /\ UNCHANGED <<parserVars, ingestVars, now, tstore, cache>>

\* the client disconnects while generate() has not been started or is
\* suspended at a yield, of a chunk event or of the final event: the response
\* task is cancelled and the generator is closed where it stands, so no
\* statement after that point runs
GenCancel ==
    /\ query.pc \in {"start", "yield", "final"}
    /\ query' = [query EXCEPT !.pc = "cancelled"]
    /\ UNCHANGED <<parserVars, ingestVars, now, tstore, cache>>

\* another request's query_rag reaches get_prompt_template
OtherQuery ==
    /\ LoopIdle
    /\ cache' = CacheAfterGet
    /\ UNCHANGED <<parserVars, ingestVars, now, tstore, query>>

\* reload_prompts
ReloadPrompts ==
    /\ LoopIdle
    /\ cache' = [template |-> LoadPromptTemplate, loaded_at |-> now, origin |-> "reload"]
    /\ UNCHANGED <<parserVars, ingestVars, now, tstore, query>>

\* the template document of the store is replaced by a new version
StoreUpdate ==
    /\ tstore < MaxVersion
    /\ tstore' = tstore + 1
    /\ UNCHANGED <<parserVars, ingestVars, now, cache, query>>

\* time passes
ClockTick ==
    /\ now < MaxTime
    /\ now' = now + 1
    /\ UNCHANGED <<parserVars, ingestVars, queryVars>>

QueryNext ==
    \/ QueryStart
    \/ \E ok \in BOOLEAN : QueryEmbed(ok)
    \/ \E ok \in BOOLEAN, k \in 0..MaxNeighbors : QuerySearch(ok, k)
    \/ \E outcome \in TemplateOutcomes : QueryNoResult(outcome)
    \/ \E lookup \in Lookups : QueryHydrate(lookup)
    \/ QueryContext
    \/ \E outcome \in TemplateOutcomes : QueryAssemble(outcome)
    \/ \E ok \in BOOLEAN : GenStart(ok)
    \/ \E empty \in BOOLEAN : GenPull(empty)
    \/ GenPullError
    \/ GenEnd
    \/ GenLogCost
    \/ GenCancel
    \/ OtherQuery
    \/ ReloadPrompts
    \/ StoreUpdate
    \/ ClockTick

QuerySpec == Init /\ [][QueryNext]_vars

(* ======================================================================== *)
(* The document parser: doc-parser/main.py                                  *)
(*                                                                          *)
(* A text is the sequence of its words; chunk sizes are counted in words    *)
(* and scaled to 4 (en, default), 2 (fr) and 3 (es), a scale at which the   *)
(* splitter's overlap of 50 characters is less than one word.  All          *)
(* coroutines run on one event loop: a process_document call gives way to   *)
(* others only in `await asyncio.sleep(0)`, inside parse_pdf (main.py:69)   *)
(* and in the loop over the chunks (155); detect, split_text, publish and   *)
(* upload_from_string do not suspend it.                                    *)
(* ======================================================================== *)
\* the bucket the upload notifications come from
UploadBucket == "uploads"

\* the object names of the notifications
Names == {"a.pdf", "B.DOCX", "c.txt"}

\* process_document: the test of blob_name.lower().endswith(...)
FileType(name) ==
    IF name = "a.pdf" THEN "pdf" ELSE IF name = "B.DOCX" THEN "docx" ELSE "other"

\* full_text of a document of n words
Text(n) == [i \in 1..n |-> <<"w", i>>]

\* the languages langdetect may name
Languages == {"en", "fr", "es", "de"}

\* detect_language: detect() raises on a text without features and "en" is
\* returned; otherwise detect() draws random samples (no DetectorFactory.seed
\* is set), so a short or ambiguous text may be given different languages by
\* different calls
DetectOutcomes(text) == IF text = <<>> THEN {"en"} ELSE Languages

\* CHUNK_SIZES.get(language, CHUNK_SIZES["default"])
ChunkSize(language) ==
    IF language = "en" THEN 4
    ELSE IF language = "fr" THEN 2
    ELSE IF language = "es" THEN 3
    ELSE 4

\* chunk_text: splitter.split_text(text), pieces of at most chunk_size
ChunkText(text, language) ==
    LET size == ChunkSize(language)
        n == (Len(text) + size - 1) \div size
    IN [k \in 1..n |-> SubSeq(text, (k - 1) * size + 1, Min(k * size, Len(text)))]

\* doc_id = hashlib.md5(f"{bucket_name}/{blob_name}".encode()).hexdigest()
DocId(bucket_name, blob_name) == <<"md5", bucket_name, blob_name>>

\* chunk_id = f"{doc_id}_{idx}"
ChunkId(doc_id, idx) == <<doc_id, idx>>

\* process_document: chunk_data of the chunk at index idx
ChunkDataOf(bucket_name, blob_name, language, chunks, idx) ==
    [docId |-> DocId(bucket_name, blob_name),
     chunkId |-> ChunkId(DocId(bucket_name, blob_name), idx),
     sourceUri |-> <<"gs", bucket_name, blob_name>>,
     text |-> chunks[idx + 1],
     language |-> language,
     chunkIndex |-> idx,
     totalChunks |-> Len(chunks)]

\* `if idx % 10 == 0: await asyncio.sleep(0)` (main.py:154-155)
YieldEvery == 10

\* a /process request or a process_document call: its document, how it was
\* started, its position, its locals and the events it has published
Run(name, text, via, at, status) ==
    [bucket |-> UploadBucket, name |-> name, text |-> text, via |-> via, pc |-> at,
     language |-> "", chunks |-> <<>>, idx |-> 0, processed_data |-> <<>>,
     events |-> <<>>, status |-> status]

\* the run is on the event loop between two suspension points
OnLoop(r) == r \in 1..Len(runs) /\ runs[r].pc \in {"parsed", "publish"}

\* the event loop can start or resume a coroutine: none is between two
\* suspension points
ParserLoopFree == \A r \in 1..Len(runs) : ~ OnLoop(r)

\* POST /process (main.py:172-194): base64.b64decode (181) raises NameError,
\* the name base64 being bound nowhere in the module; the except branch
\* answers HTTP 500 and parser.process_document is not called
ProcessRequest(name, n) ==
    /\ ParserLoopFree
    /\ Len(runs) < MaxRuns
    /\ runs' = Append(runs, Run(name, Text(n), "request", "ended", "error"))
    /\ UNCHANGED <<ingestVars, now, queryVars, processed>>

\* parser.process_document(bucket_name, blob_name) is called: the file type is
\* tested; parse_pdf reads page 0 and suspends in sleep(0) (main.py:69),
\* parse_docx returns without suspending, any other name raises ValueError
ProcessDocument(name, n) ==
    /\ ParserLoopFree
    /\ Len(runs) < MaxRuns
    /\ FileType(name) = "other" => n = 0
    /\ runs' = Append(runs,
                      IF FileType(name) = "pdf"
                      THEN Run(name, Text(n), "call", "parse_pdf", "running")
                      ELSE IF FileType(name) = "docx"
                      THEN Run(name, Text(n), "call", "parsed", "running")
                      ELSE Run(name, Text(n), "call", "ended", "error"))
    /\ UNCHANGED <<ingestVars, now, queryVars, processed>>

\* parse_pdf is resumed after sleep(0) and returns the pages' texts
ResumeParsePdf(r) ==
    /\ ParserLoopFree
    /\ r \in 1..Len(runs)
    /\ runs[r].pc = "parse_pdf"
    /\ runs' = [runs EXCEPT ![r].pc = "parsed"]
    /\ UNCHANGED <<ingestVars, now, queryVars, processed>>

\* language = self.detect_language(full_text) and
\* chunks = await self.chunk_text(full_text, language) (main.py:123-127)
DetectAndChunk(r, language) ==
    /\ r \in 1..Len(runs)
    /\ runs[r].pc = "parsed"
    /\ language \in DetectOutcomes(runs[r].text)
    /\ runs' = [runs EXCEPT ![r].pc = "publish",
                            ![r].language = language,
                            ![r].chunks = ChunkText(runs[r].text, language)]
    /\ UNCHANGED <<ingestVars, now, queryVars, processed>>

\* one turn of the loop over the chunks (main.py:134-155): the chunk is
\* stamped, its event published, and the call suspends in sleep(0) when the
\* index is a multiple of 10
PublishChunk(r) ==
    /\ r \in 1..Len(runs)
    /\ runs[r].pc = "publish"
    /\ runs[r].idx < Len(runs[r].chunks)
    /\ LET chunk_data == ChunkDataOf(runs[r].bucket, runs[r].name, runs[r].language,
                                     runs[r].chunks, runs[r].idx)
       IN runs' = [runs EXCEPT
                     ![r].idx = @ + 1,
                     ![r].processed_data = Append(@, chunk_data),
                     ![r].events = Append(@, chunk_data),
                     ![r].pc = IF runs[r].idx % YieldEvery = 0 THEN "yielded" ELSE "publish"]
    /\ UNCHANGED <<ingestVars, now, queryVars, processed>>

\* the loop over the chunks is resumed after sleep(0)
ResumeLoop(r) ==
    /\ ParserLoopFree
    /\ r \in 1..Len(runs)
    /\ runs[r].pc = "yielded"
    /\ runs' = [runs EXCEPT ![r].pc = "publish"]
    /\ UNCHANGED <<ingestVars, now, queryVars, processed>>

\* output_blob_name = f"{doc_id}.jsonl"
OutputBlobName(r) == DocId(runs[r].bucket, runs[r].name)

\* the processed bucket after upload_from_string: a blob of that name is
\* replaced where it stands, a new one is added
Uploaded(name, records) ==
    IF \E b \in 1..Len(processed) : processed[b].name = name
    THEN [b \in 1..Len(processed) |->
            IF processed[b].name = name
            THEN [name |-> name, records |-> records]
            ELSE processed[b]]
    ELSE Append(processed, [name |-> name, records |-> records])

\* process_document: the loop is over, the records are written to the
\* processed bucket (main.py:158-163) and the call returns
SaveProcessed(r) ==
    /\ r \in 1..Len(runs)
    /\ runs[r].pc = "publish"
    /\ runs[r].idx = Len(runs[r].chunks)
    /\ processed' = Uploaded(OutputBlobName(r), runs[r].processed_data)
    /\ runs' = [runs EXCEPT ![r].pc = "ended", ![r].status = "success"]
    /\ UNCHANGED <<ingestVars, now, queryVars>>

\* process_document: upload_from_string raises after the events were published
SaveProcessedError(r) ==
    /\ r \in 1..Len(runs)
    /\ runs[r].pc = "publish"
    /\ runs[r].idx = Len(runs[r].chunks)
    /\ runs' = [runs EXCEPT ![r].pc = "ended", ![r].status = "error"]
    /\ UNCHANGED <<ingestVars, now, queryVars, processed>>

ParseNext ==
    \/ \E name \in Names, n \in 0..MaxWords : ProcessRequest(name, n)
    \/ \E name \in Names, n \in 0..MaxWords : ProcessDocument(name, n)
    \/ \E r \in 1..MaxRuns : ResumeParsePdf(r)
    \/ \E r \in 1..MaxRuns, language \in Languages : DetectAndChunk(r, language)
    \/ \E r \in 1..MaxRuns : PublishChunk(r)
    \/ \E r \in 1..MaxRuns : ResumeLoop(r)
    \/ \E r \in 1..MaxRuns : SaveProcessed(r)
    \/ \E r \in 1..MaxRuns : SaveProcessedError(r)

ParseSpec == Init /\ [][ParseNext]_vars

(* ======================================================================== *)
(* Properties                                                               *)
(* ======================================================================== *)
\* the deliveries whose message was handed to process_batch in some batch
HandedItems ==
    UNION {{Delivery(handed[b].items[i]) : i \in 1..Len(handed[b].items)} :
           b \in 1..Len(handed)}

\* process_batch has returned for batch number b
Processed(b) == b < Len(handed) \/ (b = Len(handed) /\ pc \notin {"process", "oracle", "save"})

\* a message with every key process_batch reads
WellFormed(msg) == Fields \subseteq DOMAIN msg

\* the records staged for batch number b
StagedRecords(b) ==
    UNION {{uploads[u].records[i] : i \in 1..Len(uploads[u].records)} :
           u \in {v \in 1..Len(uploads) : uploads[v].batch = b}}

(* ---- C1 ---------------------------------------------------------------- *)
\* C1: every batch run() hands to process_batch is non-empty and holds at most
\* BATCH_SIZE items, whatever the interleaving of enqueues, timeouts and stop().
C1_BatchSizeBounds ==
    \A b \in 1..Len(handed) :
        0 < Len(handed[b].items) /\ Len(handed[b].items) <= BATCH_SIZE

\* a full batch and a partial batch have been handed over, and stop() was called
C1_Witness ==
    /\ ~running
    /\ \E b \in 1..Len(handed) : Len(handed[b].items) = BATCH_SIZE
    /\ \E b \in 1..Len(handed) : Len(handed[b].items) < BATCH_SIZE

(* ---- C2 ---------------------------------------------------------------- *)
\* C2: no item is lost: when run() has terminated, every item whose
\* queue.put completed (here: even only those put before stop()) has been
\* handed to process_batch in some batch.
C2_NoItemLost ==
    pc = "done" => \A n \in DOMAIN enq : enq[n].running => n \in HandedItems

(* ---- C3 ---------------------------------------------------------------- *)
\* C3: every item is handed to process_batch at most BATCH_TIMEOUT after its
\* queue.put completed.
C3_FlushedWithinTimeout ==
    \A b \in 1..Len(handed) : \A i \in 1..Len(handed[b].items) :
        handed[b].at - enq[Delivery(handed[b].items[i])].at <= BATCH_TIMEOUT

(* ---- C4 ---------------------------------------------------------------- *)
\* recs pairs items and vectors positionally: one record per item, in order
Paired(recs, items, vectors) ==
    /\ Len(recs) = Len(items)
    /\ \A i \in 1..Len(items) :
         /\ recs[i].id = items[i]["chunkId"]
         /\ recs[i].embedding = vectors[i]
         /\ recs[i].metadata.docId = items[i]["docId"]
         /\ recs[i].metadata.sourceUri = items[i]["sourceUri"]
         /\ recs[i].metadata.language = items[i]["language"]
         /\ recs[i].metadata.chunkIndex = items[i]["chunkIndex"]

\* C4: the oracle is called at most once per batch, with the texts in batch
\* order; when it returns as many vectors as the batch has items, the records
\* passed to save_vector_batch (and the records of the blob written) are one
\* per item, the i-th with the i-th item's chunkId and metadata and the i-th
\* vector.
C4_OrderPreserved ==
    \A c \in 1..Len(oracleCalls) :
        LET call == oracleCalls[c]
            items == handed[call.batch].items
        IN /\ Len(call.texts) = Len(items)
           /\ \A i \in 1..Len(items) : call.texts[i] = items[i]["text"]
           /\ \A d \in 1..Len(oracleCalls) : oracleCalls[d].batch = call.batch => d = c
           /\ (call.result.status = "returned" /\ Len(call.result.embeddings) = Len(items))
                => /\ (pc = "save" /\ call.batch = Len(handed))
                        => Paired(vector_data, items, call.result.embeddings)
                   /\ \A u \in 1..Len(uploads) :
                        uploads[u].batch = call.batch
                          => Paired(uploads[u].records, items, call.result.embeddings)

\* a full batch got as many vectors as it has items and its blob was written
C4_Witness ==
    \E u \in 1..Len(uploads) : \E c \in 1..Len(oracleCalls) :
        /\ oracleCalls[c].batch = uploads[u].batch
        /\ Len(handed[uploads[u].batch].items) = BATCH_SIZE
        /\ Len(oracleCalls[c].result.embeddings) = BATCH_SIZE
        /\ Len(uploads[u].records) = BATCH_SIZE

(* ---- C5 ---------------------------------------------------------------- *)
\* C5: a batch for which the oracle returned a number of vectors different
\* from the number of texts has no record staged.
C5_MismatchFailsBatch ==
    \A c \in 1..Len(oracleCalls) :
        (/\ oracleCalls[c].result.status = "returned"
         /\ Len(oracleCalls[c].result.embeddings) # Len(oracleCalls[c].texts))
        => \A u \in 1..Len(uploads) : uploads[u].batch # oracleCalls[c].batch

(* ---- C6 ---------------------------------------------------------------- *)
\* nothing but a malformed item went wrong for batch number b: the oracle, if
\* called, returned one vector per text, and no upload failed
OnlyItemErrors(b) ==
    /\ \A c \in 1..Len(oracleCalls) :
         oracleCalls[c].batch = b
           => /\ oracleCalls[c].result.status = "returned"
              /\ Len(oracleCalls[c].result.embeddings) = Len(oracleCalls[c].texts)
    /\ \A f \in 1..Len(failures) :
         failures[f].batch = b => failures[f].error = "KeyError"

\* C6: a malformed item is dropped alone: once process_batch has returned for
\* a batch in which nothing but malformed items went wrong, every well-formed
\* item of the batch has its record staged.
C6_ItemErrorIsolated ==
    \A b \in 1..Len(handed) :
        (Processed(b) /\ OnlyItemErrors(b))
        => \A i \in 1..Len(handed[b].items) :
             WellFormed(handed[b].items[i])
               => \E r \in StagedRecords(b) : r.id = handed[b].items[i]["chunkId"]

(* ---- C7 ---------------------------------------------------------------- *)
\* C7: once stop() has been called no new enqueue is accepted: every message
\* in the queue's history was put while running was True.
C7_NoEnqueueAfterStop ==
    \A n \in DOMAIN enq : enq[n].running

(* ---- C8 ---------------------------------------------------------------- *)
\* C8: stop() flushes a partial batch at once: the non-empty batch that was
\* being collected when stop() was called is never still being collected at
\* a later time.
C8_StopFlushesAtOnce ==
    (~running /\ pc = "wait" /\ stopped.batch # <<>> /\ batch = stopped.batch)
        => now = stopped.at

(* ---- C9 ---------------------------------------------------------------- *)
\* C9: the batch window that follows a flush starts at the time the flush was
\* taken (the batch was handed to process_batch), not when process_batch
\* returned.
C9_WindowStartsAtFlush ==
    [][(pc = "loop" /\ pc' = "cond" /\ batch # <<>>)
         => start_time' = handed[Len(handed)].at]_vars

(* ---- C10 --------------------------------------------------------------- *)
\* process_batch has just failed for the batch handed over last and run() is
\* back at `while self.running`
FailedLast ==
    /\ pc = "loop"
    /\ failures # <<>>
    /\ failures[Len(failures)].batch = Len(handed)

\* C10: a failure of process_batch does not end the accumulation loop.  The
\* step in which a batch fails (oracle error, malformed item, staging write
\* error) takes run() back to `while self.running` and touches neither the
\* running flag nor the queue nor the puts waiting on it; the next step of
\* run() after the failure opens a new collection window unless stop() was
\* called; and run() never returns while running is True.
C10_LoopSurvivesFailure ==
    /\ [](pc = "done" => ~running)
    /\ [][Len(failures') > Len(failures)
            => /\ pc' = "loop"
               /\ running' = running
               /\ queue' = queue
               /\ putters' = putters
               /\ failures'[Len(failures')].batch = Len(handed)]_vars
    /\ [][(FailedLast /\ pc' # pc /\ running)
            => /\ pc' = "cond"
               /\ batch' = <<>>
               /\ start_time' = now]_vars

\* the oracle call of the first batch raised and a later batch, holding an item
\* enqueued after that batch was handed over, was collected and staged while
\* still running
C10_Witness ==
    /\ running
    /\ failures # <<>>
    /\ failures[1].batch = 1
    /\ failures[1].error = "OracleError"
    /\ \E u \in 1..Len(uploads) :
         /\ uploads[u].batch > 1
         /\ \E i \in 1..Len(handed[uploads[u].batch].items) :
              enq[Delivery(handed[uploads[u].batch].items[i])].at > handed[1].at

(* ---- C11 --------------------------------------------------------------- *)
\* C11: a batch whose oracle call raised has no record (no blob) staged, and
\* the staged blobs are not touched by such a failure: every blob in the
\* bucket holds the records uploaded for a batch whose oracle call returned.
C11_OracleFailureFailsBatch ==
    /\ \A c \in 1..Len(oracleCalls) :
         oracleCalls[c].result.status = "raised"
           => \A u \in 1..Len(uploads) : uploads[u].batch # oracleCalls[c].batch
    /\ \A name \in DOMAIN bucket :
         \E u \in 1..Len(uploads) : \E c \in 1..Len(oracleCalls) :
            /\ uploads[u].name = name
            /\ uploads[u].records = bucket[name]
            /\ oracleCalls[c].batch = uploads[u].batch
            /\ oracleCalls[c].result.status = "returned"

\* the oracle call of one batch raised and another batch has its blob staged
C11_Witness ==
    \E c \in 1..Len(oracleCalls) : \E u \in 1..Len(uploads) :
        /\ oracleCalls[c].result.status = "raised"
        /\ uploads[u].batch # oracleCalls[c].batch
        /\ uploads[u].records # <<>>

(* ---- C12 --------------------------------------------------------------- *)
\* the places (batch, position) at which delivery n was handed to process_batch
HandedAt(n) ==
    UNION {{<<b, i>> : i \in {j \in 1..Len(handed[b].items) :
                               Delivery(handed[b].items[j]) = n}} :
           b \in 1..Len(handed)}

\* the places (call, position) at which the text of delivery n was given to
\* get_embeddings
SubmittedAt(n) ==
    UNION {{<<c, i>> : i \in {j \in 1..Len(oracleCalls[c].texts) :
                               oracleCalls[c].texts[j] = <<"text", n>>}} :
           c \in 1..Len(oracleCalls)}

\* C12: every enqueued item is placed in at most one batch, once, and its
\* text is given to the embedding oracle at most once, whether its batch
\* succeeds or fails.
C12_NoDuplicateNoRetry ==
    /\ \A b1 \in 1..Len(handed) : \A b2 \in b1..Len(handed) :
          \A i1 \in 1..Len(handed[b1].items), i2 \in 1..Len(handed[b2].items) :
             Delivery(handed[b1].items[i1]) = Delivery(handed[b2].items[i2])
                => (b1 = b2 /\ i1 = i2)
    /\ \A c1 \in 1..Len(oracleCalls) : \A c2 \in c1..Len(oracleCalls) :
          \A i1 \in 1..Len(oracleCalls[c1].texts), i2 \in 1..Len(oracleCalls[c2].texts) :
             oracleCalls[c1].texts[i1] = oracleCalls[c2].texts[i2] => (c1 = c2 /\ i1 = i2)

\* a batch failed after its texts were given to the oracle, a later batch was
\* handed over, and run() has returned
C12_Witness ==
    /\ pc = "done"
    /\ Len(handed) >= 2
    /\ \E f \in 1..Len(failures) :
         failures[f].batch = 1 /\ failures[f].error # "KeyError"
    /\ \E n \in 1..delivered : Cardinality(SubmittedAt(n)) = 1

(* ---- C13 --------------------------------------------------------------- *)
\* the messages whose producer is suspended in queue.put
Blocked == {Delivery(msg) : msg \in putters}

\* C13: the queue never holds more than its capacity, and a message whose
\* put found the queue full is neither dropped nor answered "queued": it
\* stays suspended, without an answer and without being in the queue, until
\* its put completes.
C13_BoundedBlockingBuffer ==
    /\ Len(queue) <= QUEUE_MAXSIZE
    /\ \A n \in 1..delivered :
         \/ n \in DOMAIN response /\ response[n] = "error" /\ n \notin DOMAIN enq
         \/ n \in DOMAIN enq /\ n \notin Blocked
         \/ n \in Blocked /\ n \notin DOMAIN enq /\ n \notin DOMAIN response
    /\ \A i \in 1..Len(queue) : Delivery(queue[i]) \in DOMAIN enq

\* the queue is full and a producer is suspended in queue.put
C13_Witness ==
    Len(queue) = QUEUE_MAXSIZE /\ putters # {}

(* ---- C14 --------------------------------------------------------------- *)
\* C14: a delivery is answered "queued" only once its message has been put
\* into the queue; a delivery whose decoding failed is answered with an
\* error, and its message is never in the queue.  handle_message as written
\* answers no delivery "queued" (NameError at main.py:160), so the first
\* conjunct constrains no reachable state and the order of main.py:163-165 is
\* not exercised.
C14_AckAfterEnqueue ==
    \A n \in DOMAIN response :
        /\ response[n] = "queued" => n \in DOMAIN enq
        /\ response[n] = "error" =>
             /\ n \notin DOMAIN enq
             /\ n \notin Blocked
             /\ \A i \in 1..Len(queue) : Delivery(queue[i]) # n

\* a delivery posted while run() waits on a queue that has room was answered
\* with an error, and the queue holds another message only
C14_Witness ==
    \E n \in DOMAIN response :
        /\ response[n] = "error"
        /\ queue # <<>>
        /\ Len(queue) < QUEUE_MAXSIZE
        /\ pc = "wait"

(* ------------------------------------------------------------------------ *)
(* Properties of the query path                                             *)
(* ------------------------------------------------------------------------ *)
\* the stages the request followed has called so far
CalledStages == {query.calls[c].stage : c \in 1..Len(query.calls)}

\* the vector search of the request followed returned no neighbor
SearchedZero ==
    /\ \E c \in 1..Len(query.calls) :
          query.calls[c].stage = "search" /\ query.calls[c].ok
    /\ query.neighbors = <<>>

\* C15: a query whose vector search returns zero neighbors answers with the
\* fixed "no relevant information" text, no sources and the version of the
\* template current when it answers; it calls neither the generation oracle nor
\* the chunk metadata store and streams nothing, and it ends in an error only
\* when fetching the template fails.
C15_ZeroResultAnswer ==
    SearchedZero =>
       /\ CalledStages \cap {"meta", "generate"} = {}
       /\ query.stream = <<>>
       /\ query.response \in {"none", "answer", "error"}
       /\ query.response = "answer" =>
             /\ query.answer.answer = "no_relevant_information"
             /\ query.answer.sources = <<>>
             /\ query.answer.prompt_version = query.served
             /\ query.served \in 0..tstore
       /\ query.response = "error" =>
             query.calls[Len(query.calls)] = [stage |-> "template", ok |-> FALSE]
       /\ query.pc \in {"noresult", "closed"}

\* a zero-result query has answered with a template that a timed refresh
\* loaded during the call
C15_Witness ==
    /\ SearchedZero
    /\ query.response = "answer"
    /\ query.answer.prompt_version > 0
    /\ cache.loaded_at = now

\* the ranks of the neighbors looked up so far whose metadata record exists
StoredRanks ==
    SelectSeq([i \in 1..Len(query.exists) |-> i], LAMBDA i : query.exists[i])

\* the final events of the stream
FinalEvents == {j \in 1..Len(query.stream) : query.stream[j].done}

\* C16: the chunks are the neighbors whose metadata record exists, in rank
\* order, each with score 1 - distance; the context blocks and the sources of
\* the final event follow them one for one; an absent record never fails the
\* query (only a call that raises does).
C16_HydrationSkipsAbsent ==
    /\ Len(query.chunks) = Len(StoredRanks)
    /\ \A j \in 1..Len(StoredRanks) :
          LET neighbor == query.neighbors[StoredRanks[j]]
          IN /\ query.chunks[j].sourceUri = ChunkData(neighbor.id).sourceUri
             /\ query.chunks[j].text = ChunkData(neighbor.id).text
             /\ query.chunks[j].relevance_score = 1 - neighbor.distance
    /\ query.response = "stream" =>
          /\ Len(query.exists) = Len(query.neighbors)
          /\ Len(query.prompt.context) = Len(StoredRanks)
          /\ \A j \in 1..Len(StoredRanks) :
                LET neighbor == query.neighbors[StoredRanks[j]]
                IN query.prompt.context[j] =
                      [source |-> ChunkData(neighbor.id).sourceUri,
                       text |-> ChunkData(neighbor.id).text]
    /\ \A e \in FinalEvents :
          /\ Len(query.stream[e].sources) = Len(StoredRanks)
          /\ \A j \in 1..Len(StoredRanks) :
                LET neighbor == query.neighbors[StoredRanks[j]]
                IN query.stream[e].sources[j] =
                      [uri |-> ChunkData(neighbor.id).sourceUri,
                       score |-> 1 - neighbor.distance]
    /\ query.response = "error" => ~ query.calls[Len(query.calls)].ok

\* three neighbors, the record of the second absent: the final event carries
\* the two sources of ranks 1 and 3
C16_Witness ==
    /\ query.exists = <<TRUE, FALSE, TRUE>>
    /\ FinalEvents # {}
    /\ Len(query.prompt.context) = 2
    /\ \A e \in FinalEvents : Len(query.stream[e].sources) = 2

\* an event that reports an error to the caller
IsErrorEvent(event) == "error" \in DOMAIN event

\* C17: when generation fails after the stream was opened, the last event of
\* the stream is an explicit error event.
C17_ErrorEventOnFailure ==
    query.pc = "aborted" =>
       /\ query.stream # <<>>
       /\ IsErrorEvent(query.stream[Len(query.stream)])

\* the non-empty text fragments pulled from the oracle's stream, in order
NonEmptyPulled == SelectSeq(query.pulled, LAMBDA frag : frag # 0)

\* C18: at every moment the text events of the stream are the non-empty
\* fragments pulled so far, in the oracle's order (each is forwarded before the
\* next is pulled); a generation that completes adds exactly one final event
\* (done, sources, prompt_version) after them, and nothing follows it.
C18_StreamShape ==
    LET n == Len(NonEmptyPulled)
    IN /\ Len(query.stream) \in {n, n + 1}
       /\ \A j \in 1..n :
             /\ ~ query.stream[j].done
             /\ query.stream[j].chunk = NonEmptyPulled[j]
       /\ Len(query.stream) = n + 1 =>
             /\ query.stream[n + 1].done
             /\ DOMAIN query.stream[n + 1] = {"done", "chunk", "sources", "prompt_version"}
             /\ query.pc \in {"final", "closed", "cancelled"}
       /\ (query.response = "stream" /\ query.pc \in {"final", "closed"}) =>
             Len(query.stream) = n + 1

\* a completed stream of two text fragments in order, an empty fragment of the
\* oracle between them dropped, then the final event
C18_Witness ==
    /\ query.pc = "closed"
    /\ query.pulled = <<1, 0, 3>>
    /\ Len(query.stream) = 3
    /\ query.stream[3].done

\* the position of the call to the generation oracle in the log of calls
GenerateCalls == {c \in 1..Len(query.calls) : query.calls[c].stage = "generate"}

\* C19: a stage that fails before generation starts ends the query with the
\* error response alone: nothing is streamed and the generation oracle is not
\* called; the generation oracle is called only after embed, search, one
\* metadata lookup per neighbor and the template fetch succeeded, in that order.
C19_StageFailureAborts ==
    /\ \A c \in 1..Len(query.calls) :
          (query.calls[c].stage # "generate" /\ ~ query.calls[c].ok) =>
             /\ query.response = "error"
             /\ query.pc = "closed"
             /\ c = Len(query.calls)
    /\ query.response = "error" =>
          /\ query.stream = <<>>
          /\ GenerateCalls = {}
          /\ ~ query.calls[Len(query.calls)].ok
    /\ \A g \in GenerateCalls :
          /\ g = Len(query.neighbors) + 4
          /\ \A c \in 1..(g - 1) : query.calls[c].ok
          /\ query.calls[1].stage = "embed"
          /\ query.calls[2].stage = "search"
          /\ \A c \in 3..(g - 2) : query.calls[c].stage = "meta"
          /\ query.calls[g - 1].stage = "template"
    /\ query.stream # <<>> => GenerateCalls # {}

\* a metadata lookup raised after an earlier lookup of the same query succeeded
C19_Witness ==
    /\ query.response = "error"
    /\ Len(query.calls) >= 4
    /\ query.calls[Len(query.calls)] = [stage |-> "meta", ok |-> FALSE]

\* C20: the prompt_version of the final event is the version of the template
\* the prompt of that query was assembled from, whatever the cache holds by
\* then.
C20_ReportedVersionIsUsedVersion ==
    \A e \in FinalEvents :
       /\ query.stream[e].prompt_version = query.prompt.template
       /\ query.stream[e].prompt_version = query.served

\* the final event went out after the cached template was replaced by a newer
\* version than the one the prompt was assembled from
C20_Witness ==
    /\ FinalEvents # {}
    /\ query.pulled # <<>>
    /\ \A e \in FinalEvents : cache.template.version > query.stream[e].prompt_version

\* C21: once a stream is cancelled after some fragments, its events are the
\* fragments forwarded before the cancellation and the cost record of the text
\* accumulated so far has been logged.
C21_CancelledStreamIsCosted ==
    (query.pc = "cancelled" /\ query.stream # <<>> /\ FinalEvents = {}) =>
       /\ Len(query.stream) = Len(NonEmptyPulled)
       /\ query.logged

\* the uploads of batches for which the oracle returned one vector per item
WellEmbedded ==
    {u \in 1..Len(uploads) :
        \E c \in 1..Len(oracleCalls) :
           /\ oracleCalls[c].batch = uploads[u].batch
           /\ oracleCalls[c].result.status = "returned"
           /\ Len(oracleCalls[c].result.embeddings) = Len(handed[uploads[u].batch].items)}

\* C22: every batch embedded with one vector per item and uploaded is held by
\* the bucket under a name of its own: no two such uploads share a name, and
\* the blob of each still holds that batch's records, one per item of the batch
\* in batch order.
C22_StagedOnceUnderUniqueName ==
    /\ \A u, v \in WellEmbedded :
          u # v => uploads[u].name # uploads[v].name
    /\ \A u \in WellEmbedded :
          /\ uploads[u].name \in DOMAIN bucket
          /\ bucket[uploads[u].name] = uploads[u].records
          /\ Paired(uploads[u].records, handed[uploads[u].batch].items,
                    [i \in 1..Len(uploads[u].records) |-> Vector(i)])

(* ------------------------------------------------------------------------ *)
(* Properties of the document parser                                        *)
(* ------------------------------------------------------------------------ *)
\* the process_document calls that have ended
Finished ==
    {r \in 1..Len(runs) : runs[r].via = "call" /\ runs[r].status \in {"success", "error"}}

\* what a chunk event says of its chunk, the detected language left aside
Stamp(event) ==
    [chunkId |-> event.chunkId, chunkIndex |-> event.chunkIndex,
     totalChunks |-> event.totalChunks, text |-> event.text]

\* the stamps of the events a call published, in publication order
Stamps(r) == [i \in 1..Len(runs[r].events) |-> Stamp(runs[r].events[i])]

\* C23: the i-th event a process_document call publishes has chunkIndex i - 1
\* and the chunkId made of the document's docId and that index, a finished
\* call has published totalChunks events, and two finished calls for the same
\* document (same object, same text) have published the same sequence of
\* events with the same chunkIds.
C23_StampingIdempotent ==
    /\ \A r \in 1..Len(runs) :
          \A i \in 1..Len(runs[r].events) :
             /\ runs[r].events[i].chunkIndex = i - 1
             /\ runs[r].events[i].docId = DocId(runs[r].bucket, runs[r].name)
             /\ runs[r].events[i].chunkId = <<DocId(runs[r].bucket, runs[r].name), i - 1>>
             /\ r \in Finished => runs[r].events[i].totalChunks = Len(runs[r].events)
    /\ \A r1, r2 \in Finished :
          (/\ runs[r1].bucket = runs[r2].bucket
           /\ runs[r1].name = runs[r2].name
           /\ runs[r1].text = runs[r2].text)
             => Stamps(r1) = Stamps(r2)

\* the request followed has been handed a template by get_prompt_template
Served == query.served >= 0

\* C24: the template get_prompt_template hands to a query was loaded from the
\* store no longer ago than the refresh interval; the call reads the store only
\* when the cached copy is older than the interval; a template that
\* reload_prompts put into the cache is handed out as it is, without a read of
\* the store, and the cache always holds a version the store has held.
C24_TemplateCacheFreshness ==
    /\ cache.loaded_at <= now
    /\ cache.template.version \in 0..tstore
    /\ Served =>
          /\ ~ query.got.late
          /\ ~ query.got.early
          /\ query.got.read => query.got.origin = "refresh"
          /\ query.got.origin \in {"startup", "reload", "refresh"}
          /\ query.served \in 0..tstore

\* a query was handed, without a read of the store, the new version that
\* reload_prompts had loaded
C24_Witness ==
    /\ Served
    /\ query.got.origin = "reload"
    /\ ~ query.got.read
    /\ query.served > 0

(* ---- C25 --------------------------------------------------------------- *)
\* the deliveries of the first b batches handed to process_batch, in hand-off
\* order
RECURSIVE HandedUpTo(_)
HandedUpTo(b) ==
    IF b = 0 THEN <<>>
    ELSE HandedUpTo(b - 1) \o
         [i \in 1..Len(handed[b].items) |-> Delivery(handed[b].items[i])]

\* the number of items in the first b batches handed to process_batch
RECURSIVE HandedCount(_)
HandedCount(b) ==
    IF b = 0 THEN 0 ELSE HandedCount(b - 1) + Len(handed[b].items)

\* the items run() holds in the batch it is collecting, and the one wait_for
\* is about to return to it
InHand ==
    (IF pc \in {"cond", "wait", "got", "flush"} THEN batch ELSE <<>>)
      \o (IF pc = "got" THEN <<message>> ELSE <<>>)

\* the place of message msg in the order in which the puts completed
PutOrder(msg) == enq[Delivery(msg)].seq

\* C25: the batches handed to process_batch, one after the other, are a prefix
\* of the items in the order their enqueues completed: the k-th item dequeued
\* is the item whose put completed k-th, and the queue continues that order.
C25_BatchesAreFifoSegments ==
    LET done == HandedCount(Len(handed))
        held == InHand
    IN /\ \A b \in 1..Len(handed) : \A i \in 1..Len(handed[b].items) :
             PutOrder(handed[b].items[i]) = HandedCount(b - 1) + i
       /\ \A i \in 1..Len(held) : PutOrder(held[i]) = done + i
       /\ \A i \in 1..Len(queue) : PutOrder(queue[i]) = done + Len(held) + i
       /\ done + Len(held) + Len(queue) = Cardinality(DOMAIN enq)

\* three items were handed over in two batches
C25_Witness ==
    /\ Len(handed) >= 2
    /\ Len(HandedUpTo(Len(handed))) = 3
    /\ Len(handed[1].items) = 2
====
